---- MODULE Spec2Model ----
(***************************************************************************)
(* A model of the sloboden-pecat scraper: the harvest of one category      *)
(* (scrape.py, fetch_category_posts), the run over the catalog (main),     *)
(* the category files (load_data, save_data) and the consolidation of the  *)
(* category files into one corpus (utils/consolidate_data.py).             *)
(***************************************************************************)
EXTENDS Naturals, Sequences, FiniteSets, TLC

\* ------------------------------------------------------------------ bounds

\* Number of times main() is started on the same data directory.
MaxRuns == 2
\* The pagination ceiling of the model (9999 in the source).
MaxPages == 2
\* The most post records the remote puts in one page.
MaxPerPage == 2
\* The most articles in one category file given to the consolidation.
MaxFileLen == 2
\* The most articles in the consolidated file given to the split.
MaxLegacy == 2

\* --------------------------------------------------------------- constants

\* scrape.py: MAX_PAGES_PER_CATEGORY = 9999, scaled down to the model's bound.
MAX_PAGES_PER_CATEGORY == MaxPages

\* scrape.py: CATEGORY_IDS, the first two entries of the catalog in its
\* iteration order (a dict iterates in insertion order).
CATEGORY_IDS == << "makedonija", "skopje" >>

\* A catalog of one category, for the runs that are repeated.
SingleCategory == << "makedonija" >>

Categories == { CATEGORY_IDS[i] : i \in 1..Len(CATEGORY_IDS) }

\* split_data.py 60-63: the group of the articles that have no category.
Uncategorized == "uncategorized"

\* The category files a data directory may hold: <name>.json for the
\* categories of the catalog and for the group of the uncategorized.
FileNames == Categories \cup { Uncategorized }

\* Python's None (post.get('link') of a record whose link is missing or null).
None == "<None>"

\* ---------------------------------------------------------- the remote API

\* The post records the remote may serve.  wf = FALSE is a malformed record:
\* it has a 'link' and no 'title', so post['title'] raises KeyError.
PostA1 == [link |-> "https://sp.mk/a", id |-> 1, wf |-> TRUE,
           title |-> "A &amp; B", content |-> "<p>old</p>"]
PostA2 == [link |-> "https://sp.mk/a", id |-> 1, wf |-> TRUE,
           title |-> "A changed", content |-> "<p>new</p><script>x()</script>"]
PostB1 == [link |-> "https://sp.mk/b", id |-> 2, wf |-> TRUE,
           title |-> "B", content |-> "<p>old</p>"]
PostN1 == [link |-> None, id |-> 3, wf |-> TRUE,
           title |-> "B", content |-> ""]
PostXB == [link |-> "https://sp.mk/b", id |-> 2, wf |-> FALSE,
           title |-> "", content |-> ""]

PostRecords == { PostA1, PostA2, PostB1, PostN1, PostXB }

Pages == UNION { [1..n -> PostRecords] : n \in 0..MaxPerPage }

\* What one requests.get can come to.  status 0: the request itself raised
\* (network failure); decodable = FALSE: r.json() raises.
NetworkError == [status |-> 0, decodable |-> FALSE, posts |-> << >>]
Http400 == [status |-> 400, decodable |-> TRUE, posts |-> << >>]
Http500 == [status |-> 500, decodable |-> TRUE, posts |-> << >>]
Undecodable == [status |-> 200, decodable |-> FALSE, posts |-> << >>]
Http200(posts) == [status |-> 200, decodable |-> TRUE, posts |-> posts]

Responses == { NetworkError, Http400, Http500, Undecodable }
               \cup { Http200(p) : p \in Pages }

\* ------------------------------------------------------- content functions

\* html.unescape on the titles the remote serves.
unescape(t) == IF t = "A &amp; B" THEN "A & B" ELSE t

\* clean_html_content on the bodies the remote serves: empty input gives "",
\* script elements are dropped, the text of the <p> blocks is kept.
clean_html_content(html_content) ==
    CASE html_content = "" -> ""
      [] html_content = "<p>old</p>" -> "old"
      [] html_content = "<p>new</p><script>x()</script>" -> "new"
      [] OTHER -> ""

\* The article dict built from a post record (scrape.py 119-126); scraped_at
\* is the time of the run, stood for by the run's number.
BuildArticle(post, category_name, now) ==
    [url |-> post.link,
     title |-> unescape(post.title),
     text |-> clean_html_content(post.content),
     categories |-> << category_name >>,
     page_id |-> post.id,
     scraped_at |-> now]

\* ---------------------------------------------------------- category files

\* json.dump of a string or None, and json.load of what it wrote.
JsonValue(v) == IF v = None THEN "null" ELSE "\"" \o v \o "\""

StringValues ==
    { None, "" } \cup { p.link : p \in PostRecords }
      \cup { unescape(p.title) : p \in PostRecords }
      \cup { clean_html_content(p.content) : p \in PostRecords }

PyValue(j) == CHOOSE v \in StringValues : JsonValue(v) = j

JsonObject(a) ==
    [url |-> JsonValue(a.url), title |-> JsonValue(a.title),
     text |-> JsonValue(a.text), categories |-> a.categories,
     page_id |-> a.page_id, scraped_at |-> a.scraped_at]

PyDict(o) ==
    [url |-> PyValue(o.url), title |-> PyValue(o.title),
     text |-> PyValue(o.text), categories |-> o.categories,
     page_id |-> o.page_id, scraped_at |-> o.scraped_at]

\* A category file: absent, text that is not JSON (an empty or cut file),
\* or a JSON array of objects.
Absent == [exists |-> FALSE, valid |-> FALSE, items |-> << >>]
Truncated == [exists |-> TRUE, valid |-> FALSE, items |-> << >>]
JsonFile(data) ==
    [exists |-> TRUE, valid |-> TRUE,
     items |-> [i \in 1..Len(data) |-> JsonObject(data[i])]]

\* Files that parse as JSON and are not arrays of article objects: the
\* object {"articles": []}, and the array [{"title": "B"}] whose entry has
\* no 'url'.  `foreign` stands for the value json.load gives for them.
NotArray == [exists |-> TRUE, valid |-> TRUE, items |-> << >>,
             foreign |-> "{'articles': []}"]
NoUrlArray == [exists |-> TRUE, valid |-> TRUE, items |-> << >>,
               foreign |-> "[{'title': 'B'}]"]
Foreign == { NotArray, NoUrlArray }

\* A directory that holds a file exists.
HoldsFiles(d) == \E f \in DOMAIN d : d[f].exists

\* load_data: [] for a file that is absent or does not parse, else whatever
\* json.load gives.
load_data(file) ==
    IF ~(file.exists /\ file.valid) THEN << >>
    ELSE IF file \in Foreign THEN file.foreign
    ELSE [i \in 1..Len(file.items) |-> PyDict(file.items[i])]

\* scrape.py 80: {item['url'] for item in existing_data} raises on a loaded
\* value that is not a list of dicts with a 'url' (TypeError, KeyError).
UrlsRaise(file) == file.exists /\ file.valid /\ file \in Foreign

\* ------------------------------------------------------------- the harvest

Urls(data) == { data[i].url : i \in 1..Len(data) }

\* Mutant: the urls of the loaded articles are not collected.
ExistingUrls_Empty(existing_data) == {}

\* scrape.py 80: the set of urls of the loaded articles.
ExistingUrls(existing_data) == Urls(existing_data)

\* Mutant: a stored url is fetched again.
Known_Never(link, existing_urls) == FALSE

\* scrape.py 112: a record whose link is known is skipped.
Known(link, existing_urls) == link \in existing_urls

\* Mutant: the url of a new article is not added to the known urls.
AddUrl_Forgets(existing_urls, link) == existing_urls

\* scrape.py 129: existing_urls.add(link).
AddUrl(existing_urls, link) == existing_urls \cup { link }

\* Mutant: the empty list does not end the pagination.
NoPosts_Never(posts) == FALSE

\* scrape.py 105: `if not posts`.
NoPosts(posts) == posts = << >>

\* Mutant: the new articles are put before the loaded ones.
Extend_Prepends(existing_data, new_articles) == new_articles \o existing_data

\* Mutant: the loaded list is returned as it was loaded.
Extend_DropsNew(existing_data, new_articles) == existing_data

\* scrape.py 148: existing_data.extend(new_articles).
Extend(existing_data, new_articles) == existing_data \o new_articles

\* Mutant: the exception is not caught and ends the run.
ExceptHandler_Raises == "crashed"

\* Mutant: after an exception the page is requested again.
ExceptHandler_Retries == "fetch"

\* scrape.py 144-146: the handler of an exception raised in the page's try
\* block prints and breaks, so the function goes on to line 148.
ExceptHandler == "extend"

\* scrape.py 110-135: the loop over the records of one page, from record i.
\* raised = TRUE: a record raised, and the records after it were not reached.
RECURSIVE ProcessPosts(_, _, _, _, _, _)
ProcessPosts(posts, i, existing_urls, new_articles, category_name, now) ==
    IF i > Len(posts)
    THEN [new_articles |-> new_articles, existing_urls |-> existing_urls,
          raised |-> FALSE]
    ELSE LET post == posts[i]
             link == post.link
         IN  IF Known(link, existing_urls)
             THEN ProcessPosts(posts, i + 1, existing_urls, new_articles,
                               category_name, now)
             ELSE IF ~post.wf
             THEN [new_articles |-> new_articles,
                   existing_urls |-> existing_urls, raised |-> TRUE]
             ELSE ProcessPosts(posts, i + 1, AddUrl(existing_urls, link),
                               Append(new_articles,
                                      BuildArticle(post, category_name, now)),
                               category_name, now)

VARIABLES
    data_dir,       \* the data directory exists
    disk,           \* the data directory: category name -> file
    pc,             \* where main is
    runs,           \* how many times main was started
    todo,           \* main's iterator over the catalog
    cat_name,       \* main: the category being harvested
    existing_data,  \* fetch_category_posts: the loaded list (extended in place)
    existing_urls,  \* fetch_category_posts: the urls known
    new_articles,   \* fetch_category_posts: the articles built in this run
    page,           \* fetch_category_posts: the page of the loop
    category_data,  \* main: the list returned by the harvest
    new_count,      \* main: the count returned by the harvest
    remote,         \* an unchanging remote: its answers for pages 1..Len(remote)
    prior,          \* the category's file as this harvest loaded it
    fetched,        \* the pages this harvest requested, in order
    kinds,          \* what each request of this harvest came to
    reached,        \* the new urls of the records this harvest went through, in
                    \* the order and with the page of their first receipt
    notes,          \* what was remarkable in the pages this harvest received
    stop,           \* why this harvest's pagination ended
    saved,          \* the categories saved in this run
    failed,         \* the categories whose pagination an error stopped, this run
    pace,           \* "start": no request yet in this run; "requested": no delay
                    \* since the last request; "slept": time.sleep(DELAY) since
    mpc,            \* where load_all_categories is
    json_files,     \* load_all_categories: the files still to read
    all_articles,   \* load_all_categories: the merged list
    seen_urls,      \* load_all_categories: the urls merged
    category_counts,\* load_all_categories: category -> original, unique
    duplicate_count \* load_all_categories: the duplicates dropped

harvestVars == << existing_data, existing_urls, new_articles, page >>
mainVars == << runs, todo, cat_name, category_data, new_count >>
historyVars == << prior, fetched, kinds, reached, notes, stop >>
mergeVars == << mpc, json_files, all_articles, seen_urls, category_counts,
                duplicate_count >>
scrapeVars == << pc, mainVars, harvestVars, remote, historyVars, saved,
                 failed, pace >>
vars == << data_dir, disk, scrapeVars, mergeVars >>

\* Nothing has run yet.
Idle ==
    /\ pc = "idle"
    /\ runs = 0
    /\ todo = << >>
    /\ cat_name = ""
    /\ existing_data = << >>
    /\ existing_urls = {}
    /\ new_articles = << >>
    /\ page = 1
    /\ category_data = << >>
    /\ new_count = 0
    /\ remote = << >>
    /\ prior = Absent
    /\ fetched = << >>
    /\ kinds = << >>
    /\ reached = << >>
    /\ notes = {}
    /\ stop = ""
    /\ saved = {}
    /\ failed = {}
    /\ pace = "start"
    /\ mpc = "idle"
    /\ json_files = << >>
    /\ all_articles = << >>
    /\ seen_urls = {}
    /\ category_counts = << >>
    /\ duplicate_count = 0

\* The data directory is empty before the first run.
Init ==
    /\ data_dir = FALSE
    /\ disk = [f \in FileNames |-> Absent]
    /\ Idle

\* ---------------------------------------- the record of what was received

\* The collection this harvest loaded.
Loaded == load_data(prior)

\* What a request came to: "error" (the request raised, a status other than
\* 200 and 400, a body that does not decode), "end" (status 400), "empty"
\* (the empty list) or "posts".
Kind(r) ==
    IF r.status = 400 THEN "end"
    ELSE IF r.status # 200 \/ ~r.decodable THEN "error"
    ELSE IF r.posts = << >> THEN "empty"
    ELSE "posts"

\* The urls of the records gone through that were not stored, each with the
\* page that brought it first, in the order of the first receipts.
ReachedUrls == { reached[i].link : i \in 1..Len(reached) }

\* `got` with the new urls that the records `posts` of page p are the first to
\* bring, in the order of the page.
RECURSIVE FirstReceipts(_, _, _, _, _)
FirstReceipts(posts, k, p, stored, got) ==
    IF k > Len(posts) THEN got
    ELSE IF \/ posts[k].link \in stored
            \/ \E i \in 1..Len(got) : got[i].link = posts[k].link
    THEN FirstReceipts(posts, k + 1, p, stored, got)
    ELSE FirstReceipts(posts, k + 1, p, stored,
                       Append(got, [link |-> posts[k].link, page |-> p]))

\* Record i of a page raises: it is malformed and its url is not among the
\* urls `known` (those stored and those of the records gone through on the
\* pages before), and was not met before it on this page.
RaisesAt(posts, i, known) ==
    /\ ~posts[i].wf
    /\ posts[i].link \notin known
    /\ \A k \in 1..(i - 1) : posts[k].link # posts[i].link

\* The records of a page before the first that raises.
GoneThrough(posts, known) ==
    IF \E i \in 1..Len(posts) : RaisesAt(posts, i, known)
    THEN LET i == CHOOSE i \in 1..Len(posts) :
                      RaisesAt(posts, i, known)
                        /\ \A k \in 1..(i - 1) : ~RaisesAt(posts, k, known)
         IN  SubSeq(posts, 1, i - 1)
    ELSE posts

\* What is remarkable in a page, given the collection loaded and the new
\* urls gone through before it: "repeated", a url not stored that the page
\* holds twice or that a page before held; "changed", a stored url with
\* another title and body.
NotesOf(posts, loaded, before) ==
    { n \in { "repeated", "changed" } :
        \E i \in 1..Len(posts) :
            \/ /\ n = "repeated"
               /\ posts[i].link \notin Urls(loaded)
               /\ \/ \E k \in 1..(i - 1) : posts[k].link = posts[i].link
                  \/ posts[i].link \in before
            \/ /\ n = "changed"
               /\ posts[i].wf
               /\ \E s \in 1..Len(loaded) :
                      /\ loaded[s].url = posts[i].link
                      /\ loaded[s].title # unescape(posts[i].title)
                      /\ loaded[s].text # clean_html_content(posts[i].content) }

\* ------------------------------------------------------------------ main

\* main is started (scrape.py 164-173) over the catalog `catalog`; line 168
\* makes the data directory if it is missing.
MainStart(catalog) ==
    /\ pc \in { "idle", "done", "crashed" }
    /\ runs < MaxRuns
    /\ runs' = runs + 1
    /\ todo' = catalog
    /\ pc' = "next"
    /\ saved' = {}
    /\ failed' = {}
    /\ UNCHANGED << disk, cat_name, category_data, new_count, harvestVars,
                    remote, historyVars, mergeVars >>
    /\ pace' = "start"
    /\ data_dir' = TRUE

\* scrape.py 173-175: the next category of the catalog.
NextCategory ==
    /\ pc = "next"
    /\ todo # << >>
    /\ cat_name' = Head(todo)
    /\ todo' = Tail(todo)
    /\ pc' = "load"
    /\ UNCHANGED << disk, runs, category_data, new_count, harvestVars,
                    remote, historyVars, saved, failed, mergeVars >>
    /\ UNCHANGED pace
    /\ UNCHANGED data_dir

\* scrape.py 184-189: the catalog is exhausted, main returns.
MainDone ==
    /\ pc = "next"
    /\ todo = << >>
    /\ pc' = "done"
    /\ UNCHANGED << disk, mainVars, harvestVars, remote, historyVars, saved,
                    failed, mergeVars >>
    /\ UNCHANGED pace
    /\ UNCHANGED data_dir

\* scrape.py 79-83: the start of fetch_category_posts.  Line 80 is outside
\* every try block and main catches nothing: when it raises, the run ends.
Load ==
    /\ pc = "load"
    /\ prior' = disk[cat_name]
    /\ fetched' = << >>
    /\ kinds' = << >>
    /\ reached' = << >>
    /\ notes' = {}
    /\ stop' = ""
    /\ IF UrlsRaise(disk[cat_name])
       THEN /\ pc' = "crashed"
            /\ UNCHANGED harvestVars
       ELSE /\ existing_data' = load_data(disk[cat_name])
            /\ existing_urls' = ExistingUrls(load_data(disk[cat_name]))
            /\ new_articles' = << >>
            /\ page' = 1
            /\ pc' = "fetch"
    /\ UNCHANGED << disk, mainVars, remote, saved, failed, mergeVars >>
    /\ UNCHANGED pace
    /\ UNCHANGED data_dir

\* scrape.py 85: range(1, MAX_PAGES_PER_CATEGORY + 1) is exhausted.
LoopExhausted ==
    /\ pc = "fetch"
    /\ page > MAX_PAGES_PER_CATEGORY
    /\ stop' = "ceiling"
    /\ pc' = "extend"
    /\ UNCHANGED << disk, mainVars, harvestVars, remote, prior, fetched,
                    kinds, reached, notes, saved, failed,
                    mergeVars >>
    /\ UNCHANGED pace
    /\ UNCHANGED data_dir

\* The answers the remote may give to the request for page p.  A remote that
\* changes may answer anything.  A remote that does not change answers a
\* page it was asked for before as it did then; its data set is drawn from
\* Unchanging.
Unchanging ==
    { NetworkError, Http400, Http500, Undecodable }
      \cup { Http200(q) :
               q \in UNION { [1..n -> { PostA1, PostN1, PostXB }] :
                             n \in 0..MaxPerPage } }
Answers(p, unchanging) ==
    IF ~unchanging THEN Responses
    ELSE IF p <= Len(remote) THEN { remote[p] }
    ELSE Unchanging

\* scrape.py 86-146: one iteration of the loop over the pages: the request,
\* the checks of the response, the loop over the records, the delay.  The
\* delay (line 142) is reached only by a page whose records were all gone
\* through; every break leaves the loop without it.
FetchPage(unchanging) ==
    /\ pc = "fetch"
    /\ page <= MAX_PAGES_PER_CATEGORY
    /\ LET loaded == Loaded
           stored == Urls(loaded)
       IN  \E r \in Answers(page, unchanging) :
        /\ remote' = IF unchanging /\ page = Len(remote) + 1
                     THEN Append(remote, r) ELSE remote
        /\ fetched' = Append(fetched, page)
        /\ kinds' = Append(kinds, Kind(r))
        /\ reached' = FirstReceipts(
                          GoneThrough(r.posts, stored \cup ReachedUrls),
                          1, Len(fetched) + 1, stored, reached)
        /\ notes' = notes \cup NotesOf(r.posts, loaded, ReachedUrls)
        /\ IF r.status = 0
           THEN \* requests.get raised
                /\ stop' = "error"
                /\ pc' = ExceptHandler
                /\ UNCHANGED harvestVars
           ELSE IF r.status = 400
           THEN \* 98-100: the end of the pagination
                /\ stop' = "end"
                /\ pc' = "extend"
                /\ UNCHANGED harvestVars
           ELSE IF r.status # 200 \/ ~r.decodable
           THEN \* 102-103: raise_for_status or r.json() raised
                /\ stop' = "error"
                /\ pc' = ExceptHandler
                /\ UNCHANGED harvestVars
           ELSE IF NoPosts(r.posts)
           THEN \* 105-107
                /\ stop' = "empty"
                /\ pc' = "extend"
                /\ UNCHANGED harvestVars
           ELSE LET out == ProcessPosts(r.posts, 1, existing_urls,
                                        new_articles, cat_name, runs)
                IN  /\ new_articles' = out.new_articles
                    /\ existing_urls' = out.existing_urls
                    /\ UNCHANGED existing_data
                    /\ IF out.raised
                       THEN /\ stop' = "error"
                            /\ pc' = ExceptHandler
                            /\ UNCHANGED page
                       ELSE \* 137-142: the page is done, sleep, next page
                            /\ stop' = ""
                            /\ pc' = "fetch"
                            /\ page' = page + 1
    /\ failed' = IF stop' = "error" THEN failed \cup { cat_name } ELSE failed
    /\ UNCHANGED << disk, mainVars, prior, saved, mergeVars >>
    /\ pace' = IF stop' = "" THEN "slept" ELSE "requested"
    /\ UNCHANGED data_dir

\* scrape.py 148-149 and 175: the new articles are appended to the loaded
\* list, which is returned with their count.
Return ==
    /\ pc = "extend"
    /\ existing_data' = Extend(existing_data, new_articles)
    /\ category_data' = Extend(existing_data, new_articles)
    /\ new_count' = Len(new_articles)
    /\ pc' = "save"
    /\ UNCHANGED << disk, runs, todo, cat_name, existing_urls, new_articles,
                    page, remote, historyVars, saved, failed, mergeVars >>
    /\ UNCHANGED pace
    /\ UNCHANGED data_dir

\* scrape.py 161: open(filepath, 'w') creates or truncates the file.
SaveOpen ==
    /\ pc = "save"
    /\ disk' = [disk EXCEPT ![cat_name] = Truncated]
    /\ pc' = "write"
    /\ UNCHANGED << mainVars, harvestVars, remote, historyVars, saved, failed,
                    mergeVars >>
    /\ UNCHANGED pace
    /\ UNCHANGED data_dir

\* scrape.py 161: open raises (no permission); main does not catch it.
SaveOpenFails ==
    /\ pc = "save"
    /\ pc' = "crashed"
    /\ UNCHANGED << disk, mainVars, harvestVars, remote, historyVars, saved,
                    failed, mergeVars >>
    /\ UNCHANGED pace
    /\ UNCHANGED data_dir

\* scrape.py 162: json.dump writes the whole list and the file is closed.
SaveWrite ==
    /\ pc = "write"
    /\ disk' = [disk EXCEPT ![cat_name] = JsonFile(category_data)]
    /\ pc' = "saved"
    /\ saved' = saved \cup { cat_name }
    /\ UNCHANGED << mainVars, harvestVars, remote, historyVars, failed,
                    mergeVars >>
    /\ UNCHANGED pace
    /\ UNCHANGED data_dir

\* scrape.py 162: a write raises (disk full) after the file was truncated;
\* what was written is not a whole JSON array.  main does not catch it.
SaveWriteFails ==
    /\ pc = "write"
    /\ disk' = [disk EXCEPT ![cat_name] = Truncated]
    /\ pc' = "crashed"
    /\ UNCHANGED << mainVars, harvestVars, remote, historyVars, saved, failed,
                    mergeVars >>
    /\ UNCHANGED pace
    /\ UNCHANGED data_dir

\* scrape.py 179-182: the totals and the log line, then the next category.
Account ==
    /\ pc = "saved"
    /\ pc' = "next"
    /\ UNCHANGED << disk, mainVars, harvestVars, remote, historyVars, saved,
                    failed, mergeVars >>
    /\ UNCHANGED pace
    /\ UNCHANGED data_dir

\* A run of main after its start, the remote changing or not.
Harvest(unchanging) ==
    \/ NextCategory
    \/ MainDone
    \/ Load
    \/ LoopExhausted
    \/ FetchPage(unchanging)
    \/ Return
    \/ SaveOpen
    \/ SaveWrite
    \/ Account

StorageFault ==
    \/ SaveOpenFails
    \/ SaveWriteFails

\* ------------------------------------------------------ the split migration

\* Articles of the consolidated file that split_data.py reads: one filed
\* under two categories, one of the same url filed under one, one filed
\* under none.
LegacyA == [BuildArticle(PostA1, "makedonija", 0)
              EXCEPT !.categories = << "makedonija", "skopje" >>]
LegacyA2 == BuildArticle(PostA2, "makedonija", 0)
LegacyB == [BuildArticle(PostB1, "makedonija", 0) EXCEPT !.categories = << >>]

LegacyArticles == { LegacyA, LegacyA2, LegacyB }

\* The lists load_articles may return (split_data.py 34-49).
LegacyLists == UNION { [1..n -> LegacyArticles] : n \in 0..MaxLegacy }

\* split_data.py 52-70: an article goes to the group of each of its
\* categories, and to the uncategorized when it has none; a group keeps the
\* order of the list.  A name without articles has no group.
group_by_category(articles) ==
    [f \in FileNames |->
        SelectSeq(articles,
                  LAMBDA a : IF a.categories = << >>
                             THEN f = Uncategorized
                             ELSE \E i \in 1..Len(a.categories) :
                                      a.categories[i] = f)]

\* split_data.py 73-95: the directory is made if missing, and the file of
\* every group is written over whatever was there.
save_category_files(category_groups) ==
    /\ data_dir' = TRUE
    /\ disk' = [f \in FileNames |->
                  IF category_groups[f] # << >>
                  THEN JsonFile(category_groups[f])
                  ELSE disk[f]]

\* split_data.py main (129-182), run while the scraper is not running.
Split ==
    /\ pc \in { "idle", "done", "crashed" }
    /\ mpc = "idle"
    /\ \E articles \in LegacyLists :
           save_category_files(group_by_category(articles))
    /\ UNCHANGED << scrapeVars, mergeVars >>

\* Repeated runs of main over a catalog of one category, the remote
\* answering anything and the storage failing or not.
Next ==
    \/ MainStart(SingleCategory)
    \/ Harvest(FALSE)
    \/ StorageFault

Spec == Init /\ [][Next]_vars

\* A run of main over a catalog of one category in a data directory that the
\* split has filled or not, the remote answering anything and the storage
\* failing or not.
NextMigrated ==
    \/ pc = "idle" /\ Split
    \/ pc = "idle" /\ MainStart(SingleCategory)
    \/ Harvest(FALSE)
    \/ StorageFault

SpecMigrated == Init /\ [][NextMigrated]_vars

\* Repeated runs of main over a catalog of one category with a remote that
\* does not change and a storage that is sound.
NextRerun ==
    \/ MainStart(SingleCategory)
    \/ Harvest(TRUE)

SpecRerun == Init /\ [][NextRerun]_vars

\* One run of main over the catalog, the storage sound.  The program is
\* sequential and every request returns (with a response or an exception), so
\* a step that can be taken is taken.
NextCatalog ==
    \/ pc = "idle" /\ MainStart(CATEGORY_IDS)
    \/ Harvest(FALSE)

SpecCatalog == Init /\ [][NextCatalog]_vars /\ WF_vars(NextCatalog)

\* The category files a run may find in a data directory it did not write
\* itself: absent, not JSON, or JSON that is not an array of articles.
StoreFiles == { Absent, Truncated } \cup Foreign

InitStore ==
    /\ \E first \in StoreFiles : \E second \in StoreFiles :
           disk = (CATEGORY_IDS[1] :> first) @@ (CATEGORY_IDS[2] :> second)
                    @@ (Uncategorized :> Absent)
    /\ data_dir \in BOOLEAN
    /\ HoldsFiles(disk) => data_dir
    /\ Idle

\* One run of main over the catalog on such a data directory, the storage
\* sound.
SpecStore == InitStore /\ [][NextCatalog]_vars

\* --------------------------------------------------- the consolidation

\* consolidate_data.py 46-51: `if url` is false of None and of "".
Truthy(url) == url \notin { None, "" }

\* Mutant: no url is taken as seen.
Unseen_Always(url, urls) == TRUE

\* consolidate_data.py 47: `url not in seen_urls`.
Unseen(url, urls) == url \notin urls

\* consolidate_data.py 45-52: the loop over the articles of one file, from
\* article i.
RECURSIVE MergeArticles(_, _, _, _, _, _)
MergeArticles(articles, i, all, urls, unique, duplicates) ==
    IF i > Len(articles)
    THEN [all_articles |-> all, seen_urls |-> urls, new_count |-> unique,
          duplicate_count |-> duplicates]
    ELSE LET url == articles[i].url
         IN  IF Truthy(url) /\ Unseen(url, urls)
             THEN MergeArticles(articles, i + 1, Append(all, articles[i]),
                                urls \cup { url }, unique + 1, duplicates)
             ELSE IF Truthy(url)
             THEN MergeArticles(articles, i + 1, all, urls, unique,
                                duplicates + 1)
             ELSE MergeArticles(articles, i + 1, all, urls, unique, duplicates)

\* consolidate_data.py 28: sorted() of the names of the .json files of the
\* directory, as the categories they name; "makedonija.json" sorts before
\* "skopje.json", and that before "uncategorized.json".
SortedListing(d) ==
    SelectSeq(<< "makedonija", "skopje", Uncategorized >>,
              LAMBDA c : d[c].exists)

\* consolidate_data.py 17-30.  Without the data directory the function
\* returns None (19-21): nothing is listed and nothing is merged.
MergeStart ==
    /\ mpc = "idle"
    /\ IF ~data_dir
       THEN /\ mpc' = "none"
            /\ UNCHANGED << json_files, all_articles, seen_urls,
                            category_counts, duplicate_count >>
       ELSE /\ json_files' = SortedListing(disk)
            /\ all_articles' = << >>
            /\ seen_urls' = {}
            /\ category_counts' = << >>
            /\ duplicate_count' = 0
            /\ mpc' = "files"
    /\ UNCHANGED << data_dir, disk, scrapeVars >>

\* consolidate_data.py 32-62: one file of the loop.  A file that does not
\* parse raises in json.load: nothing is merged or counted for it.
MergeFile ==
    /\ mpc = "files"
    /\ json_files # << >>
    /\ LET category_name == Head(json_files)
           file == disk[category_name]
           articles == load_data(file)
           out == MergeArticles(articles, 1, all_articles, seen_urls, 0,
                                duplicate_count)
       IN  IF file.valid
           THEN /\ all_articles' = out.all_articles
                /\ seen_urls' = out.seen_urls
                /\ duplicate_count' = out.duplicate_count
                /\ category_counts' =
                     (category_name :> [original |-> Len(articles),
                                        unique |-> out.new_count])
                       @@ category_counts
           ELSE UNCHANGED << all_articles, seen_urls, duplicate_count,
                             category_counts >>
    /\ json_files' = Tail(json_files)
    /\ UNCHANGED << mpc, disk, scrapeVars >>
    /\ UNCHANGED data_dir

\* consolidate_data.py 64.
MergeReturn ==
    /\ mpc = "files"
    /\ json_files = << >>
    /\ mpc' = "returned"
    /\ UNCHANGED << json_files, all_articles, seen_urls, category_counts,
                    duplicate_count, disk, scrapeVars >>
    /\ UNCHANGED data_dir

\* The category files the consolidation is given: absent, not JSON, or a
\* list of at most MaxFileLen articles, urls repeated or empty among them.
MergeArticleSet(c) ==
    { BuildArticle(p, c, 1) : p \in { q \in PostRecords : q.wf } }
      \cup { [BuildArticle(PostB1, c, 1) EXCEPT !.url = ""] }

MergeFiles(c) ==
    { Absent, Truncated }
      \cup { JsonFile(data) :
               data \in UNION { [1..n -> MergeArticleSet(c)] :
                                n \in 0..MaxFileLen } }

InitMerge ==
    /\ \E first \in MergeFiles(CATEGORY_IDS[1]) :
       \E second \in MergeFiles(CATEGORY_IDS[2]) :
           disk = (CATEGORY_IDS[1] :> first) @@ (CATEGORY_IDS[2] :> second)
                    @@ (Uncategorized :> Absent)
    /\ data_dir \in BOOLEAN
    /\ HoldsFiles(disk) => data_dir
    /\ Idle

NextMerge ==
    \/ Split
    \/ MergeStart
    \/ MergeFile
    \/ MergeReturn

SpecMerge == InitMerge /\ [][NextMerge]_vars

\* ------------------------------------------------------------ properties

\* The collection now on disk for a category.
OnDisk(c) == load_data(disk[c])

\* The harvest has returned to main.
Returned == pc \in { "save", "write", "saved" }

PairwiseDistinct(data) ==
    \A i, j \in 1..Len(data) : data[i].url = data[j].url => i = j

\* C1 (no duplicate urls): when a harvest has saved its category, the saved
\* collection has pairwise distinct urls if the collection it loaded had,
\* whatever the remote served, urls repeated in a page or across pages too.
C1_NoDuplicateUrls ==
    pc = "saved" =>
        (PairwiseDistinct(Loaded) => PairwiseDistinct(OnDisk(cat_name)))

\* C1's case: a run that loaded articles of distinct urls and fetched two
\* pages saved more, having received a new url a second time.
C1_Witness ==
    /\ pc = "saved"
    /\ Len(Loaded) >= 1
    /\ PairwiseDistinct(Loaded)
    /\ new_count >= 1
    /\ Len(fetched) >= 2
    /\ "repeated" \in notes

\* C2 (idempotence): with a remote that answers every page as it did before,
\* a harvest that follows a harvest of the same category adds no article
\* and saves the file as it found it.
C2_Idempotent ==
    (pc = "saved" /\ runs >= 2) =>
        (new_count = 0 /\ disk[cat_name] = prior)

\* C2's case: the second of two such harvests has saved, the first having
\* stored two articles and stopped on a malformed record.
C2_Witness ==
    /\ pc = "saved"
    /\ runs = 2
    /\ Len(OnDisk(cat_name)) >= 2
    /\ stop = "error"
    /\ kinds[Len(kinds)] = "posts"

\* C3 (first write wins): every article of the loaded collection is in the
\* saved collection with all its fields, and the harvest has put no article
\* of a loaded url in the saved collection.
C3_FirstWriteWins ==
    pc = "saved" =>
        /\ Len(OnDisk(cat_name)) >= Len(Loaded)
        /\ \A i \in 1..Len(Loaded) : OnDisk(cat_name)[i] = Loaded[i]
        /\ \A j \in (Len(Loaded) + 1)..Len(OnDisk(cat_name)) :
               OnDisk(cat_name)[j].url \notin Urls(Loaded)

\* C3's case: the harvest received a stored url with another title and
\* body, and has saved.
C3_Witness ==
    /\ pc = "saved"
    /\ "changed" \in notes

\* C4 (save atomicity): when a save has failed, a load of the category
\* gives what it gave before the save.
C4_SaveAtomic ==
    pc = "crashed" => OnDisk(cat_name) = Loaded

\* C5 (per-category isolation): in a run over the catalog, whatever errors
\* stop the pagination of its categories, main comes to its end with every
\* category of the catalog harvested and saved.
C5_Isolation == <>(pc = "done" /\ saved = Categories)

\* C5's case: an error stopped the pagination of the first category, and
\* the run ended with both categories saved.
C5_Witness ==
    /\ pc = "done"
    /\ saved = Categories
    /\ CATEGORY_IDS[1] \in failed
    /\ CATEGORY_IDS[2] \notin failed
    /\ OnDisk(CATEGORY_IDS[2]) # << >>

\* The urls of the articles of all the category files that load; an article
\* whose url is missing, null or empty has no url.
InputUrls == UNION { Urls(OnDisk(c)) : c \in FileNames } \ { None, "" }

RECURSIVE SumUnique(_)
SumUnique(S) ==
    IF S = {} THEN 0
    ELSE LET c == CHOOSE c \in S : TRUE
         IN  category_counts[c].unique + SumUnique(S \ { c })

\* C6 (merge correctness): the merged list has as many articles as there
\* are distinct urls in the files merged, and the 'unique' counts of the
\* sources add up to that number.
C6_MergeCorrect ==
    mpc = "returned" =>
        /\ Len(all_articles) = Cardinality(InputUrls)
        /\ SumUnique(DOMAIN category_counts) = Len(all_articles)

\* C6's case: two files that share a url, one of them holding a url twice,
\* merged into two articles.
C6_Witness ==
    /\ mpc = "returned"
    /\ DOMAIN category_counts = Categories
    /\ Urls(OnDisk(CATEGORY_IDS[1])) \cap Urls(OnDisk(CATEGORY_IDS[2]))
         \cap InputUrls # {}
    /\ \E c \in Categories :
           Len(OnDisk(c)) = 2 /\ OnDisk(c)[1].url = OnDisk(c)[2].url
    /\ Len(all_articles) = 2
    /\ duplicate_count >= 2

\* The harvest received pages of posts for its first n requests and the
\* empty list for the next.
EndsAfter(n) ==
    /\ Len(kinds) >= n + 1
    /\ \A p \in 1..n : kinds[p] = "posts"
    /\ kinds[n + 1] = "empty"

\* C7 (pagination termination): if the remote served posts for pages 1..n
\* and the empty list for page n + 1, the harvest requested pages 1, ...,
\* n + 1 in that order and no other, and the returned collection holds an
\* article for every url of pages 1..n that was not stored.  A harvest that
\* stopped after a page of posts stopped on an error or at the ceiling.
C7_PaginationTermination ==
    Returned =>
        /\ \A n \in 0..(MAX_PAGES_PER_CATEGORY - 1) :
               EndsAfter(n) =>
                   /\ fetched = [p \in 1..(n + 1) |-> p]
                   /\ \A i \in 1..Len(reached) :
                          /\ reached[i].page <= n
                          /\ reached[i].link \in Urls(category_data)
        /\ (kinds # << >> /\ kinds[Len(kinds)] = "posts") =>
               \/ stop = "error"
               \/ stop = "ceiling" /\ Len(fetched) = MAX_PAGES_PER_CATEGORY

\* C7's case: a page with a stored and a new url, then the empty page.
C7_Witness ==
    /\ Returned
    /\ EndsAfter(1)
    /\ "changed" \in notes
    /\ reached # << >>

\* C8 (ordering): the returned collection is the loaded collection followed
\* by the new articles, one for each new url received and in the order in
\* which the urls were first received; the save writes the returned
\* collection.
C8_Ordering ==
    Returned =>
        /\ Len(category_data) = Len(Loaded) + new_count
        /\ SubSeq(category_data, 1, Len(Loaded)) = Loaded
        /\ new_count = Len(reached)
        /\ \A i \in 1..Len(reached) :
               category_data[Len(Loaded) + i].url = reached[i].link
        /\ pc = "saved" => OnDisk(cat_name) = category_data

\* C8's case: a stored article, then a new one of page 1 and a new one of
\* page 2, saved.
C8_Witness ==
    /\ pc = "saved"
    /\ Len(Loaded) >= 1
    /\ new_count = 2
    /\ Len(reached) = 2
    /\ reached[1].page = 1
    /\ reached[2].page = 2

\* The urls of the articles built before the harvest stopped: the new urls
\* of the records gone through.
Built == ReachedUrls

\* C9 (no loss on cancellation): when a failure stopped the pagination, the
\* returned collection holds an article for every new url of the pages
\* before and of the records before the failure, new_count counts them, and
\* the save that follows writes them.
C9_NoLossOnCancellation ==
    (Returned /\ stop = "error") =>
        /\ Built \subseteq Urls(category_data)
        /\ new_count = Cardinality(Built)
        /\ pc = "saved" => Built \subseteq Urls(OnDisk(cat_name))

\* C9's case: an article of page 1 and one of a record of page 2 were
\* built, a later record of page 2 raised, and the save is done.
C9_Witness ==
    /\ pc = "saved"
    /\ stop = "error"
    /\ Len(fetched) = 2
    /\ kinds[2] = "posts"
    /\ Len(reached) = 2
    /\ reached[1].page = 1
    /\ reached[2].page = 2

\* The same for a fetch that failed on page 2.
C9_WitnessFetch ==
    /\ pc = "saved"
    /\ stop = "error"
    /\ Len(fetched) = 2
    /\ kinds[2] = "error"
    /\ Cardinality(Built) = 2

\* C10 (non-empty url): every article of every category file has a url that
\* is neither missing nor empty.
C10_NonEmptyUrl ==
    \A c \in Categories : \A i \in 1..Len(OnDisk(c)) :
        OnDisk(c)[i].url \notin { None, "" }

\* The file a harvest found is absent or corrupt: not JSON, or JSON that is
\* not an array of articles.
AbsentOrCorrupt(file) == file \in { Absent, Truncated } \cup Foreign

\* C11 (corrupt store recovery): the load of a category whose file is absent
\* or corrupt is not fatal; it gives the empty collection, with which the
\* harvest of the category proceeds.
C11_CorruptStoreRecovery ==
    AbsentOrCorrupt(prior) =>
        /\ pc # "crashed"
        /\ pc \in { "fetch", "extend" } => existing_data = << >>

\* The part of C11 that holds: a file that is absent or is not JSON loads
\* as the empty collection, and the category is harvested and saved.
C11_AbsentOrUnparsable ==
    prior \in { Absent, Truncated } =>
        /\ pc # "crashed"
        /\ pc \in { "fetch", "extend" } => existing_data = << >>

\* The categories in the lexicographic order of their names.
LexicographicOrder == << "makedonija", "skopje", "uncategorized" >>

\* The first occurrence of a url: in the first collection, in that order,
\* that holds it, the first article that has it.
FirstOccurrence(u) ==
    LET k == CHOOSE k \in 1..Len(LexicographicOrder) :
                 /\ u \in Urls(OnDisk(LexicographicOrder[k]))
                 /\ \A h \in 1..(k - 1) :
                        u \notin Urls(OnDisk(LexicographicOrder[h]))
        data == OnDisk(LexicographicOrder[k])
        i == CHOOSE i \in 1..Len(data) :
                 data[i].url = u /\ \A h \in 1..(i - 1) : data[h].url # u
    IN  data[i]

RECURSIVE SumOriginal(_)
SumOriginal(S) ==
    IF S = {} THEN 0
    ELSE LET c == CHOOSE c \in S : TRUE
         IN  category_counts[c].original + SumOriginal(S \ { c })

\* The first half of C12: for every url of the files merged, the merged list
\* holds one article, the first occurrence of the url.
C12_FirstSeenKept ==
    mpc = "returned" =>
        \A u \in InputUrls :
            /\ Cardinality({ j \in 1..Len(all_articles) :
                               all_articles[j].url = u }) = 1
            /\ \E j \in 1..Len(all_articles) :
                   all_articles[j] = FirstOccurrence(u)

\* C12 (merge first-seen): the merged list keeps, for every url, the first
\* occurrence in the first collection in lexicographic order of category
\* name, and every other article of the collections is counted as a
\* duplicate: the duplicates removed and the unique articles kept add up to
\* the original counts.
C12_MergeFirstSeen ==
    mpc = "returned" =>
        /\ \A u \in InputUrls :
               /\ Cardinality({ j \in 1..Len(all_articles) :
                                  all_articles[j].url = u }) = 1
               /\ \E j \in 1..Len(all_articles) :
                      all_articles[j] = FirstOccurrence(u)
        /\ duplicate_count + SumUnique(DOMAIN category_counts)
             = SumOriginal(DOMAIN category_counts)

\* C13 (inter-request delay): whenever a request is issued that is not the
\* first of the run, a delay has elapsed since the request before it, in the
\* same category or in the category before.
C13_InterRequestDelay ==
    [][Len(fetched') = Len(fetched) + 1 => pace # "requested"]_vars

\* The part of C13 that holds: within one category, a delay elapses between
\* two consecutive requests.
C13_DelayWithinCategory ==
    [][(Len(fetched') = Len(fetched) + 1 /\ fetched # << >>)
         => pace = "slept"]_vars

\* The harvest is paginating, or has stopped and returned.
Paginating == pc = "fetch"
Stopped == pc \in { "extend", "save", "write", "saved" }

\* What C14 says of every state of a harvest: at most MAX_PAGES_PER_CATEGORY
\* requests; the pages 1, 2, ... each requested once; no request after an
\* end of pagination or an error; the harvest goes on after every page of
\* posts it went through whole, below the ceiling; it stops on a 400, on the
\* empty list, on an error or at the ceiling, and on nothing else.
HarvestBounded ==
    /\ Len(fetched) <= MAX_PAGES_PER_CATEGORY
    /\ fetched = [i \in 1..Len(fetched) |-> i]
    /\ Len(kinds) = Len(fetched)
    /\ \A i \in 1..(Len(kinds) - 1) : kinds[i] = "posts"
    /\ Paginating =>
           /\ stop = ""
           /\ \A i \in 1..Len(kinds) : kinds[i] = "posts"
    /\ Stopped =>
           \/ stop = "end" /\ kinds # << >> /\ kinds[Len(kinds)] = "end"
           \/ stop = "empty" /\ kinds # << >> /\ kinds[Len(kinds)] = "empty"
           \/ stop = "error" /\ kinds # << >>
                /\ kinds[Len(kinds)] \in { "error", "posts" }
           \/ /\ stop = "ceiling"
              /\ Len(fetched) = MAX_PAGES_PER_CATEGORY
              /\ \A i \in 1..Len(kinds) : kinds[i] = "posts"

\* C14 (harvest termination): whatever the remote answers, a harvest that
\* is paginating comes to stop, having made at most MAX_PAGES_PER_CATEGORY
\* requests, each page once, and it stops only on the end of the
\* pagination, on an error or at the ceiling.
C14_HarvestTermination ==
    /\ []HarvestBounded
    /\ (Paginating ~> Stopped)

\* C14's case: a harvest stopped at the ceiling; its second page was a page
\* of posts that brought no new url, and the pagination went on after it.
C14_Witness ==
    /\ Stopped
    /\ stop = "ceiling"
    /\ Len(fetched) = MAX_PAGES_PER_CATEGORY
    /\ kinds[2] = "posts"
    /\ reached # << >>
    /\ \A i \in 1..Len(reached) : reached[i].page = 1

====
